---- MODULE Spec2Model ----
(***************************************************************************)
(* Stock Sherlok: the conversational agent (StockSherlokAgent), the market *)
(* data accessor (StockDataService), the voice relay (TelnyxVoiceService)  *)
(* and the routes of the HTTP server that drive them.                      *)
(*                                                                         *)
(* JavaScript strings that the code inspects character by character (the   *)
(* ticker symbols, through toUpperCase) are sequences of one-character     *)
(* strings; texts the code only passes along are TLA+ strings.  A value    *)
(* that may be undefined is a record [def, v].                             *)
(***************************************************************************)
EXTENDS Integers, Sequences, FiniteSets, Bags, TLC

VARIABLES
    openaiKey,            \* process.env.OPENAI_API_KEY as the agent's constructor read it
    client,               \* agent.client: "openai" or "null"
    conversationHistory,  \* agent.conversationHistory
    reqs,                 \* the requests in flight through the agent pipeline
    agentLast,            \* the last completed agent operation (observation)
    successes,            \* successful generateResponse calls since the buffer was last empty
    alphaVantageKey,      \* stockService.alphaVantageKey
    stockLast,            \* the last completed market-data call (observation)
    apiKey,               \* voiceService.apiKey
    enabled,              \* voiceService.enabled
    voiceLast,            \* the last completed voice operation (observation)
    now,                  \* the time, in ticks
    limiter,              \* apiLimiter's store: the kind of window, hits and resetTime per client
    admits,               \* requests let through per client: in its window, in recent ticks
    limLast,              \* the last request the server received (observation)
    scanInput,            \* a scan's arguments and the fundamentals its fetches meet
    scanLast              \* what the scan returned (observation)

agentVars == <<openaiKey, client, conversationHistory, reqs, agentLast, successes>>
stockVars == <<alphaVantageKey, stockLast>>
voiceVars == <<apiKey, enabled, voiceLast>>
limiterVars == <<now, limiter, admits, limLast>>
scanVars == <<scanInput, scanLast>>
vars == <<openaiKey, client, conversationHistory, reqs, agentLast, successes,
          alphaVantageKey, stockLast, apiKey, enabled, voiceLast,
          now, limiter, admits, limLast, scanInput, scanLast>>

----------------------------------------------------------------------------
(* Bounds of the model.                                                    *)

\* longest ticker spelled over the small alphabet
MaxSymLen == 2
\* requests that may be in flight through the agent at once
NumReq == 2
\* most successful calls counted between two resets
MaxRun == 4
\* ticks the clock of the limiter runs for
MaxTime == 3
\* requests a client may send beyond the limit within one window
MaxOver == 1
\* the limiter's window (windowMs: 15 minutes) in ticks, and the requests it lets
\* through per window (max: 100), scaled down
WindowTicks == 2
MaxHits == 2

----------------------------------------------------------------------------
(* JavaScript values.                                                      *)

Def(x) == [def |-> TRUE, v |-> x]
\* undefined where a sequence of characters is expected
UndefS == [def |-> FALSE, v |-> <<>>]
\* undefined where a text is expected
UndefT == [def |-> FALSE, v |-> ""]

\* an environment variable: unset, or set to a text
EnvUnset == UndefT
EnvValues(placeholder) == {EnvUnset, Def(""), Def(placeholder), Def("live-key")}
\* JavaScript truthiness of an environment value
Truthy(e) == e.def /\ e.v # ""

\* a symbol argument: a string, or a number (as a request body may carry)
StrVal(s) == [t |-> "string", s |-> s, n |-> 0]
NumVal(n) == [t |-> "number", s |-> <<>>, n |-> n]

UpperOf == [c \in {"a", "p", "l", "m", "s", "f", "t", "z"} |->
              CASE c = "a" -> "A" [] c = "p" -> "P" [] c = "l" -> "L"
                [] c = "m" -> "M" [] c = "s" -> "S" [] c = "f" -> "F"
                [] c = "t" -> "T" [] c = "z" -> "Z"]
UpperChar(c) == IF c \in DOMAIN UpperOf THEN UpperOf[c] ELSE c
\* String.prototype.toUpperCase
toUpperCase(s) == [i \in 1..Len(s) |-> UpperChar(s[i])]

----------------------------------------------------------------------------
(* StockDataService                                                        *)

ALPHA_PLACEHOLDER == "your_alpha_vantage_api_key_here"

AAPL == <<"A", "A", "P", "L">>
GOOGL == <<"G", "O", "O", "G", "L">>
MSFT == <<"M", "S", "F", "T">>

\* new Date().toISOString().split('T')[0]
Today == "today"

Quote(symbol, price, change, changePercent, volume, lastUpdated) ==
    [symbol |-> symbol, price |-> price, change |-> change,
     changePercent |-> changePercent, volume |-> volume, lastUpdated |-> lastUpdated]

UndefinedQuote == Quote(UndefS, UndefT, UndefT, UndefT, UndefT, UndefT)

\* the mockData object literal of getMockStockData
mockStockData ==
    (AAPL :> Quote(Def(AAPL), Def("178.50"), Def("+2.50"), Def("+1.42%"), Def("52000000"), Def(Today)))
    @@ (GOOGL :> Quote(Def(GOOGL), Def("142.30"), Def("-1.20"), Def("-0.84%"), Def("28000000"), Def(Today)))
    @@ (MSFT :> Quote(Def(MSFT), Def("378.85"), Def("+5.15"), Def("+1.38%"), Def("23000000"), Def(Today)))

\* the outcome of a call: a returned value, or a raised error
Return(v) == [threw |-> FALSE, value |-> v]
ThrowQuote == [threw |-> TRUE, value |-> UndefinedQuote]

getMockStockData_CaseSensitive(symbol) ==
    IF symbol.t # "string"
    THEN ThrowQuote
    ELSE IF symbol.s \in DOMAIN mockStockData
         THEN Return(mockStockData[symbol.s])
         ELSE Return(Quote(Def(toUpperCase(symbol.s)), Def("100.00"), Def("+0.00"),
                           Def("+0.00%"), Def("1000000"), Def(Today)))

\* getMockStockData: symbol.toUpperCase() raises a TypeError on a non-string
getMockStockData(symbol) ==
    IF symbol.t # "string"
    THEN ThrowQuote
    ELSE LET key == toUpperCase(symbol.s)
         IN  IF key \in DOMAIN mockStockData
             THEN Return(mockStockData[key])
             ELSE Return(Quote(Def(key), Def("100.00"), Def("+0.00"),
                               Def("+0.00%"), Def("1000000"), Def(Today)))

\* The provider's reply to the GLOBAL_QUOTE request, as axios hands it over:
\*   throws : axios.get rejected (network error, non-2xx status)
\*   hasData: response.data is an object (otherwise reading a property raises)
\*   hasGQ  : response.data['Global Quote'] is present (an object, so truthy)
\*   gq     : the fields read from it
QuoteReply(throws, hasData, hasGQ, gq) ==
    [throws |-> throws, hasData |-> hasData, hasGQ |-> hasGQ, gq |-> gq]
LiveQuote(sym) ==
    Quote(Def(sym), Def("live-price"), Def("live-change"), Def("live-pct"),
          Def("live-volume"), Def("live-day"))
QuoteReplies(symbol) ==
    { QuoteReply(TRUE, FALSE, FALSE, UndefinedQuote),   \* network error
      QuoteReply(FALSE, FALSE, FALSE, UndefinedQuote),  \* no response body
      QuoteReply(FALSE, TRUE, FALSE, UndefinedQuote),   \* {} or {"Note": ...}
      QuoteReply(FALSE, TRUE, TRUE, UndefinedQuote),    \* {"Global Quote": {}}
      QuoteReply(FALSE, TRUE, TRUE,
                 LiveQuote(IF symbol.t = "string" THEN toUpperCase(symbol.s) ELSE <<>>)) }

keyConfigured(key) == Truthy(key) /\ key.v # ALPHA_PLACEHOLDER

\* The result of a service call: the outcome and the provider requests issued.
Called(outcome, n) == [threw |-> outcome.threw, value |-> outcome.value, requests |-> n]

\* the try block of getStockQuote
tryStockQuote(key, symbol, reply) ==
    IF keyConfigured(key)
    THEN IF reply.throws \/ ~reply.hasData
         THEN ThrowQuote                     \* axios.get rejects, or data[...] of undefined
         ELSE IF reply.hasGQ
              THEN Return(reply.gq)          \* if (response.data['Global Quote'])
              ELSE getMockStockData(symbol)
    ELSE getMockStockData(symbol)

getStockQuote_RetryOnFailure(key, symbol, reply) ==
    LET t == tryStockQuote(key, symbol, reply)
        n == IF keyConfigured(key) THEN (IF t.threw THEN 2 ELSE 1) ELSE 0
    IN  IF t.threw
        THEN Called(getMockStockData(symbol), n)
        ELSE Called(t, n)

\* getStockQuote: the try block, and the catch block that serves the mock data
getStockQuote(key, symbol, reply) ==
    LET t == tryStockQuote(key, symbol, reply)
        n == IF keyConfigured(key) THEN 1 ELSE 0
    IN  IF t.threw
        THEN Called(getMockStockData(symbol), n)   \* catch (error)
        ELSE Called(t, n)

Company(name, symbol, description, sector, industry, marketCap, peRatio) ==
    [name |-> name, symbol |-> symbol, description |-> description, sector |-> sector,
     industry |-> industry, marketCap |-> marketCap, peRatio |-> peRatio]

UndefinedCompany == Company(UndefS, UndefS, UndefT, UndefT, UndefT, UndefT, UndefT)
ThrowCompany == [threw |-> TRUE, value |-> UndefinedCompany]

\* the mockData object literal of getMockCompanyData (names are kept as one chunk)
mockCompanyData ==
    (AAPL :> Company(Def(<<"Apple Inc.">>), Def(AAPL), Def("Apple Inc. designs ..."),
                     Def("Technology"), Def("Consumer Electronics"),
                     Def("2800000000000"), Def("29.5")))
    @@ (GOOGL :> Company(Def(<<"Alphabet Inc.">>), Def(GOOGL), Def("Alphabet Inc. offers ..."),
                     Def("Communication Services"), Def("Internet Content & Information"),
                     Def("1750000000000"), Def("26.8")))
    @@ (MSFT :> Company(Def(<<"Microsoft Corporation">>), Def(MSFT), Def("Microsoft Corporation develops ..."),
                     Def("Technology"), Def("Software-Infrastructure"),
                     Def("2820000000000"), Def("35.2")))

\* getMockCompanyData: symbol.toUpperCase() raises a TypeError on a non-string
getMockCompanyData(symbol) ==
    IF symbol.t # "string"
    THEN ThrowCompany
    ELSE LET key == toUpperCase(symbol.s)
         IN  IF key \in DOMAIN mockCompanyData
             THEN Return(mockCompanyData[key])
             ELSE Return(Company(Def(key \o <<" Company">>), Def(key),
                                 Def("Company information not available in demo mode."),
                                 Def("Unknown"), Def("Unknown"), Def("N/A"), Def("N/A")))

\* The provider's reply to the OVERVIEW request:
\*   throws, hasData as for the quote; ov: the fields read from response.data
\*   (Name, Symbol, Description, Sector, Industry, MarketCapitalization, PERatio)
OverviewReply(throws, hasData, ov) == [throws |-> throws, hasData |-> hasData, ov |-> ov]
LiveCompany(sym) ==
    Company(Def(<<"Live Name">>), Def(sym), Def("live-description"), Def("live-sector"),
            Def("live-industry"), Def("live-cap"), Def("live-pe"))
OverviewReplies(symbol) ==
    LET sym == IF symbol.t = "string" THEN toUpperCase(symbol.s) ELSE <<"7">>
    IN  { OverviewReply(TRUE, FALSE, UndefinedCompany),    \* network error
          OverviewReply(FALSE, FALSE, UndefinedCompany),   \* no response body
          OverviewReply(FALSE, TRUE, UndefinedCompany),    \* {} or {"Note": ...}
          OverviewReply(FALSE, TRUE, [UndefinedCompany EXCEPT !.symbol = Def(<<>>)]),  \* Symbol: ""
          OverviewReply(FALSE, TRUE, [UndefinedCompany EXCEPT !.symbol = Def(sym)]),   \* Symbol only
          OverviewReply(FALSE, TRUE, LiveCompany(sym)) }

\* the try block of getCompanyOverview
tryCompanyOverview(key, symbol, reply) ==
    IF keyConfigured(key)
    THEN IF reply.throws \/ ~reply.hasData
         THEN ThrowCompany
         ELSE IF reply.ov.symbol.def /\ reply.ov.symbol.v # <<>>    \* if (response.data.Symbol)
              THEN Return(reply.ov)
              ELSE getMockCompanyData(symbol)
    ELSE getMockCompanyData(symbol)

\* getCompanyOverview: the try block, and the catch block that serves the mock data
getCompanyOverview(key, symbol, reply) ==
    LET t == tryCompanyOverview(key, symbol, reply)
        n == IF keyConfigured(key) THEN 1 ELSE 0
    IN  IF t.threw
        THEN Called(getMockCompanyData(symbol), n)   \* catch (error)
        ELSE Called(t, n)

\* the symbols handed to the service: the table's tickers in several spellings,
\* every string over a small alphabet up to MaxSymLen, and a number
RECURSIVE StringsUpTo(_)
StringsUpTo(n) ==
    IF n = 0 THEN {<<>>}
    ELSE LET shorter == StringsUpTo(n - 1)
         IN  shorter \cup {Append(s, c) : s \in shorter, c \in {"a", "Z"}}
SymbolStrings ==
    {AAPL, <<"a", "a", "p", "l">>, <<"A", "a", "P", "l">>, MSFT, <<"m", "s", "f", "t">>, GOOGL}
    \cup StringsUpTo(MaxSymLen)
Symbols == {StrVal(s) : s \in SymbolStrings} \cup {NumVal(7)}

NoQuoteReply == QuoteReply(FALSE, FALSE, FALSE, UndefinedQuote)
NoOverviewReply == OverviewReply(FALSE, FALSE, UndefinedCompany)
NoStockCall ==
    [op |-> "none", symbol |-> StrVal(<<>>),
     qreply |-> NoQuoteReply, oreply |-> NoOverviewReply,
     quote |-> Called(Return(UndefinedQuote), 0),
     company |-> Called(Return(UndefinedCompany), 0)]

\* stockService.getStockQuote(symbol), the provider answering with reply
GetStockQuote ==
    \E symbol \in Symbols : \E reply \in QuoteReplies(symbol) :
        /\ stockLast' = [NoStockCall EXCEPT
               !.op = "getStockQuote", !.symbol = symbol, !.qreply = reply,
               !.quote = getStockQuote(alphaVantageKey, symbol, reply)]
        /\ UNCHANGED <<alphaVantageKey, agentVars, voiceVars, limiterVars, scanVars>>

\* stockService.getCompanyOverview(symbol), the provider answering with reply
GetCompanyOverview ==
    \E symbol \in Symbols : \E reply \in OverviewReplies(symbol) :
        /\ stockLast' = [NoStockCall EXCEPT
               !.op = "getCompanyOverview", !.symbol = symbol, !.oreply = reply,
               !.company = getCompanyOverview(alphaVantageKey, symbol, reply)]
        /\ UNCHANGED <<alphaVantageKey, agentVars, voiceVars, limiterVars, scanVars>>

----------------------------------------------------------------------------
(* TelnyxVoiceService                                                      *)

TELNYX_PLACEHOLDER == "your_telnyx_api_key_here"

voiceConstructor_AnyKey(key) == Truthy(key)

\* the constructor's test: this.apiKey && this.apiKey !== PLACEHOLDER_API_KEY
voiceConstructor(key) == Truthy(key) /\ key.v # TELNYX_PLACEHOLDER

\* A returned object: the property names it has, and the values of success and message.
VoiceResult(keys, success, message) == [keys |-> keys, success |-> success, message |-> message]
NotConfigured == VoiceResult({"success", "message"}, FALSE, Def("Voice service not configured"))
Failed(error) == VoiceResult({"success", "message"}, FALSE, error.message)
NoResult == VoiceResult({}, FALSE, UndefT)

\* The provider's answer to one command:
\*   throws : the SDK call rejected, with an error carrying message
\*   hasData: the resolved value has a data object (read by makeOutboundCall)
TelnyxReply(throws, hasData) ==
    [throws |-> throws, hasData |-> hasData,
     message |-> IF throws THEN Def("telnyx error") ELSE UndefT]
TelnyxReplies == {TelnyxReply(TRUE, FALSE), TelnyxReply(FALSE, TRUE), TelnyxReply(FALSE, FALSE)}
\* reading a property of undefined
TypeErrorOf == [message |-> Def("Cannot read properties of undefined")]

\* a command sent to the provider: what it asks for, the call (or the number) it
\* is about, and for speak the text to say
Command(cmd, id) == [cmd |-> cmd, id |-> id, text |-> ""]
SpeakCommand(id, text) == [cmd |-> "speak", id |-> id, text |-> text]

\* what an operation did: raised or returned, the object returned, the commands sent
VoiceDone(threw, result, commands) == [threw |-> threw, result |-> result, commands |-> commands]

speakText_UniformShape(on, callControlId, text, reply) ==
    IF ~on
    THEN VoiceDone(FALSE, NotConfigured, <<>>)
    ELSE IF reply.throws
         THEN VoiceDone(FALSE, Failed(reply), <<SpeakCommand(callControlId, text)>>)
         ELSE VoiceDone(FALSE, VoiceResult({"success", "message"}, TRUE, Def("Spoken")),
                        <<SpeakCommand(callControlId, text)>>)

\* speakText
speakText(on, callControlId, text, reply) ==
    IF ~on
    THEN VoiceDone(FALSE, NotConfigured, <<>>)
    ELSE IF reply.throws
         THEN VoiceDone(FALSE, Failed(reply), <<SpeakCommand(callControlId, text)>>)
         ELSE VoiceDone(FALSE, VoiceResult({"success"}, TRUE, UndefT),
                        <<SpeakCommand(callControlId, text)>>)

GREETING == "Hello! I am Stock Sherlok, ..."

handleIncomingCall_SpeakBeforeAnswer(on, callControlId, answerReply, speakReply) ==
    IF ~on
    THEN VoiceDone(FALSE, NotConfigured, <<>>)
    ELSE LET spoken == speakText(on, callControlId, GREETING, speakReply)
         IN  IF answerReply.throws
             THEN VoiceDone(FALSE, Failed(answerReply),
                            spoken.commands \o <<Command("answer", callControlId)>>)
             ELSE VoiceDone(FALSE,
                            VoiceResult({"success", "message"}, TRUE,
                                        Def("Call answered successfully")),
                            spoken.commands \o <<Command("answer", callControlId)>>)

handleIncomingCall_GreetingCounts(on, callControlId, answerReply, speakReply) ==
    IF ~on
    THEN VoiceDone(FALSE, NotConfigured, <<>>)
    ELSE IF answerReply.throws
         THEN VoiceDone(FALSE, Failed(answerReply), <<Command("answer", callControlId)>>)
         ELSE LET spoken == speakText(on, callControlId, GREETING, speakReply)
              IN  IF ~spoken.result.success
                  THEN VoiceDone(FALSE, spoken.result,
                                 <<Command("answer", callControlId)>> \o spoken.commands)
                  ELSE VoiceDone(FALSE,
                                 VoiceResult({"success", "message"}, TRUE,
                                             Def("Call answered successfully")),
                                 <<Command("answer", callControlId)>> \o spoken.commands)

handleIncomingCall_NoCatch(on, callControlId, answerReply, speakReply) ==
    IF ~on
    THEN VoiceDone(FALSE, NotConfigured, <<>>)
    ELSE IF answerReply.throws
         THEN VoiceDone(TRUE, NoResult, <<Command("answer", callControlId)>>)
         ELSE VoiceDone(FALSE,
                        VoiceResult({"success", "message"}, TRUE,
                                    Def("Call answered successfully")),
                        <<Command("answer", callControlId)>>
                            \o speakText(on, callControlId, "", speakReply).commands)

\* handleIncomingCall: answer, then speakText (whose returned record is dropped)
handleIncomingCall(on, callControlId, answerReply, speakReply) ==
    IF ~on
    THEN VoiceDone(FALSE, NotConfigured, <<>>)
    ELSE IF answerReply.throws
         THEN VoiceDone(FALSE, Failed(answerReply), <<Command("answer", callControlId)>>)
         ELSE LET spoken == speakText(on, callControlId, GREETING, speakReply)
              IN  IF spoken.threw
                  THEN VoiceDone(FALSE, Failed(TypeErrorOf),
                                 <<Command("answer", callControlId)>> \o spoken.commands)
                  ELSE VoiceDone(FALSE,
                                 VoiceResult({"success", "message"}, TRUE,
                                             Def("Call answered successfully")),
                                 <<Command("answer", callControlId)>> \o spoken.commands)

\* gatherSpeechInput
gatherSpeechInput(on, callControlId, reply) ==
    IF ~on
    THEN VoiceDone(FALSE, NotConfigured, <<>>)
    ELSE IF reply.throws
         THEN VoiceDone(FALSE, Failed(reply), <<Command("gather", callControlId)>>)
         ELSE VoiceDone(FALSE, VoiceResult({"success", "data"}, TRUE, UndefT),
                        <<Command("gather", callControlId)>>)

makeOutboundCall_ReadOutsideTry(on, toNumber, message, reply) ==
    IF ~on
    THEN VoiceDone(FALSE, NotConfigured, <<>>)
    ELSE IF reply.throws
         THEN VoiceDone(FALSE, Failed(reply), <<Command("create", toNumber)>>)
         ELSE IF ~reply.hasData
              THEN VoiceDone(TRUE, NoResult, <<Command("create", toNumber)>>)
              ELSE VoiceDone(FALSE, VoiceResult({"success", "callControlId", "note"}, TRUE, UndefT),
                             <<Command("create", toNumber)>>)

\* makeOutboundCall: call.data.call_control_id raises inside the try when data is absent
makeOutboundCall(on, toNumber, message, reply) ==
    IF ~on
    THEN VoiceDone(FALSE, NotConfigured, <<>>)
    ELSE IF reply.throws
         THEN VoiceDone(FALSE, Failed(reply), <<Command("create", toNumber)>>)
         ELSE IF ~reply.hasData
              THEN VoiceDone(FALSE, Failed(TypeErrorOf), <<Command("create", toNumber)>>)
              ELSE VoiceDone(FALSE, VoiceResult({"success", "callControlId", "note"}, TRUE, UndefT),
                             <<Command("create", toNumber)>>)

\* hangup
hangup(on, callControlId, reply) ==
    IF ~on
    THEN VoiceDone(FALSE, NotConfigured, <<>>)
    ELSE IF reply.throws
         THEN VoiceDone(FALSE, Failed(reply), <<Command("hangup", callControlId)>>)
         ELSE VoiceDone(FALSE, VoiceResult({"success"}, TRUE, UndefT),
                        <<Command("hangup", callControlId)>>)

\* An inbound webhook body: the event itself, event.data and event.data.payload
\* may each be missing; t tells what is there.
Payload(t, id) == [t |-> t, call_control_id |-> id]
EventData(t, type, payload) == [t |-> t, event_type |-> type, payload |-> payload]
Event(t, data) == [t |-> t, data |-> data]
UndefinedPayload == Payload("undefined", UndefT)
UndefinedData == EventData("undefined", UndefT, UndefinedPayload)

EventTypes == {"call.initiated", "call.answered", "call.speak.ended", "call.hangup", "call.other"}
CallControlIds == {"call-1", "call-2"}
Events ==
    { Event("undefined", UndefinedData),                        \* no event object at all
      Event("null", UndefinedData),
      Event("object", UndefinedData),                           \* {}
      Event("object", EventData("null", UndefT, UndefinedPayload)),     \* {data: null}
      Event("object", EventData("object", UndefT, UndefinedPayload)) }  \* {data: {}}
    \cup { Event("object", EventData("object", Def(ty), UndefinedPayload)) : ty \in EventTypes }
    \cup { Event("object", EventData("object", Def(ty), Payload("null", UndefT))) : ty \in {"call.answered"} }
    \cup { Event("object", EventData("object", Def(ty), Payload("object", UndefT))) : ty \in {"call.answered"} }
    \cup { Event("object", EventData("object", Def(ty), Payload("object", Def(id)))) :
             ty \in EventTypes, id \in CallControlIds }

\* what processWebhook hands back: {eventType, callControlId, payload}, or a raised error
Hook(threw, eventType, callControlId, payload) ==
    [threw |-> threw, eventType |-> eventType, callControlId |-> callControlId, payload |-> payload]
NoHook == Hook(FALSE, UndefT, UndefT, UndefinedPayload)

\* processWebhook: event.data raises when event is undefined or null; the ?. reads
\* of event.data give undefined when data (or payload) is undefined or null
processWebhook(event) ==
    IF event.t # "object"
    THEN Hook(TRUE, UndefT, UndefT, UndefinedPayload)
    ELSE IF event.data.t # "object"
         THEN Hook(FALSE, UndefT, UndefT, UndefinedPayload)
         ELSE Hook(FALSE, event.data.event_type,
                   IF event.data.payload.t = "object"
                   THEN event.data.payload.call_control_id ELSE UndefT,
                   event.data.payload)

ToNumbers == {"+15550100"}
Texts == {"Here is your analysis"}

\* the last voice operation: what it did, the provider's answers it was run against
\* (one per command it may send, in order), and for processWebhook the event and
\* the extraction
NoVoiceCall ==
    [op |-> "none", done |-> VoiceDone(FALSE, NoResult, <<>>), replies |-> <<>>,
     event |-> Event("undefined", UndefinedData), hook |-> NoHook, status |-> 0,
     message |-> "", created |-> UndefT]

VoiceCalled(op, done, replies) ==
    [NoVoiceCall EXCEPT !.op = op, !.done = done, !.replies = replies]

\* voiceService.handleIncomingCall(callControlId, callbackUrl)
HandleIncomingCall ==
    \E id \in CallControlIds : \E answerReply \in TelnyxReplies, speakReply \in TelnyxReplies :
        /\ voiceLast' = VoiceCalled("handleIncomingCall",
                                    handleIncomingCall(enabled, id, answerReply, speakReply),
                                    <<answerReply, speakReply>>)
        /\ UNCHANGED <<apiKey, enabled, agentVars, stockVars, limiterVars, scanVars>>

\* voiceService.speakText(callControlId, text)
SpeakText ==
    \E id \in CallControlIds, text \in Texts, reply \in TelnyxReplies :
        /\ voiceLast' = VoiceCalled("speakText", speakText(enabled, id, text, reply), <<reply>>)
        /\ UNCHANGED <<apiKey, enabled, agentVars, stockVars, limiterVars, scanVars>>

\* voiceService.gatherSpeechInput(callControlId)
GatherSpeechInput ==
    \E id \in CallControlIds, reply \in TelnyxReplies :
        /\ voiceLast' = VoiceCalled("gatherSpeechInput", gatherSpeechInput(enabled, id, reply),
                                    <<reply>>)
        /\ UNCHANGED <<apiKey, enabled, agentVars, stockVars, limiterVars, scanVars>>

\* voiceService.makeOutboundCall(toNumber, message); id is the call_control_id the
\* provider gives the call it creates
MakeOutboundCall ==
    \E toNumber \in ToNumbers, message \in Texts, reply \in TelnyxReplies :
      \E id \in IF enabled /\ ~reply.throws /\ reply.hasData
                THEN {Def(c) : c \in CallControlIds} ELSE {UndefT} :
        /\ voiceLast' = [VoiceCalled("makeOutboundCall",
                                     makeOutboundCall(enabled, toNumber, message, reply),
                                     <<reply>>) EXCEPT
                             !.message = message, !.created = id]
        /\ UNCHANGED <<apiKey, enabled, agentVars, stockVars, limiterVars, scanVars>>

\* voiceService.hangup(callControlId)
Hangup ==
    \E id \in CallControlIds, reply \in TelnyxReplies :
        /\ voiceLast' = VoiceCalled("hangup", hangup(enabled, id, reply), <<reply>>)
        /\ UNCHANGED <<apiKey, enabled, agentVars, stockVars, limiterVars, scanVars>>

\* voiceService.processWebhook(event): sends nothing and assigns nothing
ProcessWebhook ==
    \E event \in Events :
        LET h == processWebhook(event)
        IN  /\ voiceLast' = [NoVoiceCall EXCEPT
                   !.op = "processWebhook", !.event = event, !.hook = h,
                   !.done = VoiceDone(h.threw,
                                      IF h.threw THEN NoResult
                                      ELSE VoiceResult({"eventType", "callControlId", "payload"},
                                                       FALSE, UndefT),
                                      <<>>)]
            /\ UNCHANGED <<apiKey, enabled, agentVars, stockVars, limiterVars, scanVars>>

\* the bodies express.json() hands the webhook handler: parsed JSON objects
WebhookBodies == {event \in Events : event.t = "object"}

\* POST /api/voice/webhook: processWebhook, then handleIncomingCall when the event
\* is call.answered (the other cases only log); {received: true}, or 500 from the
\* handler's catch
VoiceWebhook ==
    \E event \in WebhookBodies : \E answerReply \in TelnyxReplies, speakReply \in TelnyxReplies :
        LET webhookData == processWebhook(event)
            answered == ~webhookData.threw /\ webhookData.eventType = Def("call.answered")
            call == IF answered
                    THEN handleIncomingCall(enabled, webhookData.callControlId,
                                            answerReply, speakReply)
                    ELSE VoiceDone(FALSE, NoResult, <<>>)
            failed == webhookData.threw \/ call.threw
        IN  /\ voiceLast' = [NoVoiceCall EXCEPT
                   !.op = "POST /api/voice/webhook", !.event = event, !.hook = webhookData,
                   !.replies = IF answered /\ enabled THEN <<answerReply, speakReply>> ELSE <<>>,
                   !.status = IF failed THEN 500 ELSE 200,
                   !.done = VoiceDone(FALSE,
                                      VoiceResult(IF failed THEN {"error"} ELSE {"received"},
                                                  FALSE, UndefT),
                                      call.commands)]
            /\ UNCHANGED <<apiKey, enabled, agentVars, stockVars, limiterVars, scanVars>>

----------------------------------------------------------------------------
(* StockSherlokAgent                                                       *)

OPENAI_PLACEHOLDER == "your_openai_api_key_here"

agentConstructor_AnyKey(key) == IF ~Truthy(key) THEN "null" ELSE "openai"

\* the constructor: this.client is null without a usable OPENAI_API_KEY
agentConstructor(key) ==
    IF ~Truthy(key) \/ key.v = OPENAI_PLACEHOLDER THEN "null" ELSE "openai"

\* entries kept by the update of generateResponse
HISTORY_LIMIT == 6

Turn(role, content) == [role |-> role, content |-> content]
SYSTEM_PROMPT == "You are Stock Sherlok, ..."
DEGRADED_TEXT == "I apologize, but I need an OpenAI API key to provide intelligent analysis. ..."
APOLOGY == "I apologize, detective work requires proper credentials. ... Error: "

\* Array.prototype.slice(-n)
sliceLast(s, n) == IF Len(s) <= n THEN s ELSE SubSeq(s, Len(s) - n + 1, Len(s))

\* buildContextualQuery: the query, followed by the serialized stock data when
\* there is some; a content is the sequence of the texts it is made of
buildContextualQuery(query, stockData) ==
    IF stockData # "null"
    THEN <<query, "\n\nRelevant stock data:\n", stockData>>
    ELSE <<query>>

\* the messages generateResponse sends to the model
buildMessages(history, query, stockData) ==
    <<Turn("system", <<SYSTEM_PROMPT>>)>> \o history
        \o <<Turn("user", buildContextualQuery(query, stockData))>>

updateHistory_NoTruncate(history, query, response) ==
    history \o <<Turn("user", <<query>>), Turn("assistant", <<response>>)>>

updateHistory_TruncateFirst(history, query, response) ==
    sliceLast(history, HISTORY_LIMIT)
        \o <<Turn("user", <<query>>), Turn("assistant", <<response>>)>>

updateHistory_KeepFirst(history, query, response) ==
    LET pushed == history \o <<Turn("user", <<query>>), Turn("assistant", <<response>>)>>
    IN  IF Len(pushed) > HISTORY_LIMIT THEN SubSeq(pushed, 1, HISTORY_LIMIT) ELSE pushed

updateHistory_KeepLastFive(history, query, response) ==
    LET pushed == history \o <<Turn("user", <<query>>), Turn("assistant", <<response>>)>>
    IN  IF Len(pushed) > HISTORY_LIMIT - 1 THEN sliceLast(pushed, HISTORY_LIMIT - 1) ELSE pushed

updateHistory_OverwriteLast(history, query, response) ==
    (IF history = <<>> THEN <<>> ELSE SubSeq(history, 1, Len(history) - 2))
        \o <<Turn("user", <<query>>), Turn("assistant", <<response>>)>>

updateHistory_DropWhenEmpty(history, query, response) ==
    LET pushed == history \o <<Turn("user", <<query>>), Turn("assistant", <<response>>)>>
    IN  IF history = <<>> THEN <<>>
        ELSE IF Len(pushed) > HISTORY_LIMIT THEN sliceLast(pushed, HISTORY_LIMIT) ELSE pushed

updateHistory_StoresContextualQuery(history, query, response) ==
    LET pushed == history \o <<Turn("user", buildContextualQuery(query, "json")),
                               Turn("assistant", <<response>>)>>
    IN  IF Len(pushed) > HISTORY_LIMIT THEN sliceLast(pushed, HISTORY_LIMIT) ELSE pushed

\* generateResponse, on success: push the user turn and the assistant turn, then
\* keep the last HISTORY_LIMIT entries
updateHistory(history, query, response) ==
    LET pushed == history \o <<Turn("user", <<query>>), Turn("assistant", <<response>>)>>
    IN  IF Len(pushed) > HISTORY_LIMIT THEN sliceLast(pushed, HISTORY_LIMIT) ELSE pushed

resetConversation_DropOldest(history) == IF history = <<>> THEN <<>> ELSE Tail(history)

\* resetConversation
resetConversation(history) == <<>>

LowerOf == [c \in {"S", "P", "G", "U"} |->
              CASE c = "S" -> "s" [] c = "P" -> "p" [] c = "G" -> "g" [] c = "U" -> "u"]
LowerChar(c) == IF c \in DOMAIN LowerOf THEN LowerOf[c] ELSE c
\* String.prototype.toLowerCase
toLowerCase(s) == [i \in 1..Len(s) |-> LowerChar(s[i])]

Whitespace == {" ", "\n"}
RECURSIVE trimStart(_)
trimStart(s) == IF s # <<>> /\ Head(s) \in Whitespace THEN trimStart(Tail(s)) ELSE s
RECURSIVE trimEnd(_)
trimEnd(s) ==
    IF s # <<>> /\ s[Len(s)] \in Whitespace THEN trimEnd(SubSeq(s, 1, Len(s) - 1)) ELSE s
\* String.prototype.trim
trim(s) == trimEnd(trimStart(s))

GENERAL == <<"g", "e", "n", "e", "r", "a", "l">>
STOCK_PRICE == <<"s", "t", "o", "c", "k", "_", "p", "r", "i", "c", "e">>
COMPANY_ANALYSIS ==
    <<"c", "o", "m", "p", "a", "n", "y", "_", "a", "n", "a", "l", "y", "s", "i", "s">>
MARKET_TREND == <<"m", "a", "r", "k", "e", "t", "_", "t", "r", "e", "n", "d">>
EDUCATION == <<"e", "d", "u", "c", "a", "t", "i", "o", "n">>

\* The model's reply to a chat completion request:
\*   throws   : the SDK call rejected
\*   hasChoice : completion.choices[0].message exists (reading it does not raise)
\*   hasContent: its content is a string (otherwise it is null)
\*   content   : that string
ModelReply(throws, hasChoice, hasContent, content) ==
    [throws |-> throws, hasChoice |-> hasChoice, hasContent |-> hasContent,
     content |-> content]

\* error.message of what the catch block of a model call receives
NETWORK_ERROR == "Connection error."
NO_CHOICE_ERROR == "Cannot read properties of undefined (reading 'message')"

\* the category names the classification prompt lists
LABELS == {STOCK_PRICE, COMPANY_ANALYSIS, MARKET_TREND, EDUCATION, GENERAL}

\* replies to the classification request for a query (content: a sequence of
\* characters): a rejected call, a reply without choices[0].message, a null
\* content, the name of a category, and a text of the model's own: a category in
\* other letter case for the first query, a word that names no category for the
\* second
IntentReplies(query) ==
    { ModelReply(TRUE, FALSE, FALSE, <<>>), ModelReply(FALSE, FALSE, FALSE, <<>>),
      ModelReply(FALSE, TRUE, FALSE, <<>>),
      ModelReply(FALSE, TRUE, TRUE, GENERAL),
      IF query = "q1"
      THEN ModelReply(FALSE, TRUE, TRUE,
                      <<" ", "S", "t", "o", "c", "k", "_", "P", "r", "i", "c", "e", "\n">>)
      ELSE ModelReply(FALSE, TRUE, TRUE, <<"U", "n", "s", "u", "r", "e">>) }

\* what went wrong with a model call, as the code reading the reply meets it
failureOf(reply) ==
    IF reply.throws THEN "rejected"
    ELSE IF ~reply.hasChoice THEN "no choice"
    ELSE IF ~reply.hasContent THEN "no content"
    ELSE "none"

ThrowIntent == [threw |-> TRUE, value |-> <<>>]

identifyIntent_NoCatch(reply) ==
    IF reply.throws \/ ~reply.hasChoice \/ ~reply.hasContent
    THEN ThrowIntent
    ELSE Return(toLowerCase(trim(reply.content)))

\* identifyIntent, once the classification call has settled (client is not null):
\* a rejected call, a reply without choices[0].message and a null content (trim
\* is read from null) all end in the catch block
identifyIntent(reply) ==
    IF reply.throws \/ ~reply.hasChoice \/ ~reply.hasContent
    THEN Return(GENERAL)                          \* catch (error)
    ELSE Return(toLowerCase(trim(reply.content)))

Queries == {"q1", "q2"}
\* the text the model answers a query with; the second query is answered by a
\* message without text
replyTo == [q \in {"q1"} |-> "a1"]

\* replies to the synthesis request for a query: a rejected call, a reply without
\* choices[0].message, and a reply with a message (its content a text or null)
GenReplies(query) ==
    { ModelReply(TRUE, FALSE, FALSE, ""), ModelReply(FALSE, FALSE, FALSE, ""),
      IF query \in DOMAIN replyTo
      THEN ModelReply(FALSE, TRUE, TRUE, replyTo[query])
      ELSE ModelReply(FALSE, TRUE, FALSE, "") }

\* null, as the content of a reply without text
Null == "null"

\* the outcome of generateResponse: raised or not, the text returned, the buffer
Generated(threw, response, history) ==
    [threw |-> threw, response |-> response, history |-> history]

generateResponse_Rethrow(history, query, reply) ==
    IF reply.throws \/ ~reply.hasChoice
    THEN Generated(TRUE, <<>>, history)
    ELSE LET response == IF reply.hasContent THEN reply.content ELSE Null
         IN  Generated(FALSE, <<response>>, updateHistory(history, query, response))

\* generateResponse, once the synthesis call has settled (client is not null): the
\* content is read without being used, so a null content is a success; a rejected
\* call and a reply without choices[0].message end in the catch block
generateResponse(history, query, reply) ==
    IF reply.throws \/ ~reply.hasChoice
    THEN Generated(FALSE,
                   <<APOLOGY, IF reply.throws THEN NETWORK_ERROR ELSE NO_CHOICE_ERROR>>,
                   history)
    ELSE LET response == IF reply.hasContent THEN reply.content ELSE Null
         IN  Generated(FALSE, <<response>>, updateHistory(history, query, response))

\* An analyzeQuery call in flight (POST /api/chat calls it directly, POST
\* /api/voice/query through processVoiceQuery): its stage and its local variables.
\* reqs is the bag of them; the route that awaits a call only shapes the JSON answer.
\* A call of analyzeQuery that waits for the model: the stage it is in ("intent":
\* the classification call is awaited, "gen": the synthesis call is awaited), its
\* arguments, and the intent once classified
InFlight(pc, query, stockData, intent) ==
    [pc |-> pc, query |-> query, stockData |-> stockData, intent |-> intent]
Waiting(pc) == {r \in BagToSet(reqs) : r.pc = pc}

\* what the last step of the agent or of its routes did
AgentDone(op, outcome, status) ==
    [op |-> op, outcome |-> outcome, status |-> status,
     before |-> 0, evicted |-> 0, stockCalls |-> 0, accessorCalls |-> 0,
     input |-> "none", error |-> "", failure |-> "none",
     query |-> "", response |-> <<>>, intent |-> <<>>,
     stockData |-> "null", afterReset |-> FALSE]
NoAgentStep == AgentDone("none", "none", 0)

\* the symbol field of a request body: absent, a ticker, or a number
BodySymbols == {StrVal(<<>>), StrVal(AAPL), NumVal(7)}
\* if (symbol)
symbolGiven(symbol) == IF symbol.t = "string" THEN symbol.s # <<>> ELSE symbol.n # 0

isMissing_NotChecked(text) == FALSE

\* !message, !transcribedText: the field is absent or empty ("" stands for every
\* falsy value of the field)
isMissing(text) == text = ""

\* The route handler of POST /api/chat and POST /api/voice/query up to the point
\* where the classification request is in flight: validation, the two market-data
\* calls, and in degraded mode the whole of analyzeQuery.
Request(route, text, symbol, qreply, oreply) ==
    LET quote == getStockQuote(alphaVantageKey, symbol, qreply)
        company == getCompanyOverview(alphaVantageKey, symbol, oreply)
        stockData == IF symbolGiven(symbol) THEN "json" ELSE "null"
        calls == IF ~symbolGiven(symbol) THEN 0
                 ELSE IF quote.threw THEN quote.requests
                 ELSE quote.requests + company.requests
        invoked == IF ~symbolGiven(symbol) THEN 0 ELSE IF quote.threw THEN 1 ELSE 2
        input == IF text = "" THEN "missing" ELSE "text"
    IN  /\ IF isMissing(text)
           THEN \* 400: the required field is missing
                /\ agentLast' = [AgentDone("request", "rejected", 400) EXCEPT
                                     !.input = input,
                                     !.error = IF route = "chat"
                                               THEN "Message is required"
                                               ELSE "Transcribed text is required"]
                /\ UNCHANGED reqs
           ELSE IF symbolGiven(symbol) /\ (quote.threw \/ company.threw)
           THEN \* the handler's catch: 500
                /\ agentLast' = [AgentDone("request", "error", 500) EXCEPT
                                     !.input = input,
                                     !.error = IF route = "chat"
                                               THEN "Failed to process your request"
                                               ELSE "Failed to process voice query",
                                     !.stockCalls = calls, !.accessorCalls = invoked]
                /\ UNCHANGED reqs
           ELSE IF client = "null"
           THEN \* identifyIntent and generateResponse return at once
                /\ agentLast' = [AgentDone("generateResponse", "degraded", 200) EXCEPT
                                     !.input = input,
                                     !.intent = GENERAL,
                                     !.response = <<DEGRADED_TEXT>>,
                                     !.stockCalls = calls, !.accessorCalls = invoked]
                /\ UNCHANGED reqs
           ELSE /\ BagCardinality(reqs) < NumReq
                /\ reqs' = reqs (+) SetToBag({InFlight("intent", text, stockData, <<>>)})
                /\ agentLast' = [AgentDone("identifyIntent", "sent", 0) EXCEPT
                                     !.input = input,
                                     !.stockCalls = calls, !.accessorCalls = invoked]
        /\ UNCHANGED <<openaiKey, client, conversationHistory, successes, stockVars, voiceVars, limiterVars, scanVars>>

\* the provider replies a route is run against: none is needed without a symbol;
\* otherwise a network error and a full reply
BodyQuoteReplies(symbol) ==
    IF symbolGiven(symbol)
    THEN {q \in QuoteReplies(symbol) : q.throws \/ (q.hasGQ /\ q.gq.symbol.def)}
    ELSE {NoQuoteReply}
BodyOverviewReplies(symbol) ==
    IF symbolGiven(symbol)
    THEN {o \in OverviewReplies(symbol) : o.throws \/ (o.hasData /\ o.ov.name.def)}
    ELSE {NoOverviewReply}
\* the request bodies: the required text missing, or a text with or without a symbol
Bodies ==
    {<<"", StrVal(<<>>)>>} \cup {<<text, symbol>> : text \in Queries, symbol \in BodySymbols}

\* POST /api/chat {message, symbol}
ChatRequest ==
    \E body \in Bodies :
        \E qreply \in BodyQuoteReplies(body[2]), oreply \in BodyOverviewReplies(body[2]) :
            Request("chat", body[1], body[2], qreply, oreply)

\* POST /api/voice/query {transcribedText, symbol}
VoiceQueryRequest ==
    \E body \in Bodies :
        \E qreply \in BodyQuoteReplies(body[2]), oreply \in BodyOverviewReplies(body[2]) :
            Request("voice", body[1], body[2], qreply, oreply)

analyzeQuery_RetryClassification(r, reply) ==
    IF failureOf(reply) = "none"
    THEN [r EXCEPT !.pc = "gen", !.intent = identifyIntent(reply).value]
    ELSE r

\* analyzeQuery from the point where await identifyIntent has returned: the
\* context is assembled and the call moves on to the synthesis stage with the
\* intent returned, whatever became of the classification call
analyzeQuery(r, reply) ==
    [r EXCEPT !.pc = "gen", !.intent = identifyIntent(reply).value]

\* The classification call of a request settles: identifyIntent returns, gatherContext
\* runs, and generateResponse builds its messages from the history as it is now and
\* sends the synthesis request.  (Were identifyIntent to raise, analyzeQuery would
\* raise and the route would answer 500.)
IntentSettles ==
    \E r \in Waiting("intent") : \E reply \in IntentReplies(r.query) :
        LET intent == identifyIntent(reply)
        IN  /\ IF intent.threw
               THEN /\ reqs' = reqs (-) SetToBag({r})
                    /\ agentLast' = [AgentDone("identifyIntent", "error", 500) EXCEPT
                                         !.failure = failureOf(reply)]
               ELSE /\ reqs' = (reqs (-) SetToBag({r}))
                                 (+) SetToBag({analyzeQuery(r, reply)})
                    /\ agentLast' = [AgentDone("generateResponse", "sent", 0) EXCEPT
                                         !.failure = failureOf(reply),
                                         !.intent = intent.value]
            /\ UNCHANGED <<openaiKey, client, conversationHistory, successes,
                           stockVars, voiceVars, limiterVars, scanVars>>

\* The synthesis call of a request succeeds: generateResponse updates the history and
\* returns the reply; analyzeQuery returns and the route answers 200.
ResponseSucceeds ==
    \E r \in Waiting("gen") : \E reply \in GenReplies(r.query) :
        LET done == generateResponse(conversationHistory, r.query, reply)
        IN  /\ ~reply.throws /\ reply.hasChoice
            /\ successes < MaxRun
            /\ conversationHistory' = done.history
            /\ reqs' = reqs (-) SetToBag({r})
            /\ agentLast' = [AgentDone("generateResponse", "success", 200) EXCEPT
                                 !.before = Len(conversationHistory),
                                 !.evicted = Len(conversationHistory) + 2
                                               - Len(conversationHistory'),
                                 !.failure = failureOf(reply),
                                 !.query = r.query,
                                 !.response = done.response,
                                 !.intent = r.intent,
                                 !.stockData = r.stockData,
                                 !.afterReset = agentLast.op = "resetConversation"]
            /\ successes' = successes + 1
            /\ UNCHANGED <<openaiKey, client, stockVars, voiceVars, limiterVars, scanVars>>

\* The synthesis call of a request fails (the call rejects, or the reply has no
\* choices[0].message): generateResponse returns the apology; analyzeQuery returns
\* and the route answers 200.  (Were generateResponse to raise, the route would
\* answer 500.)
ResponseFails ==
    \E r \in Waiting("gen") : \E reply \in GenReplies(r.query) :
        LET done == generateResponse(conversationHistory, r.query, reply)
        IN  /\ reply.throws \/ ~reply.hasChoice
            /\ conversationHistory' = done.history
            /\ reqs' = reqs (-) SetToBag({r})
            /\ agentLast' = [AgentDone("generateResponse",
                                       IF done.threw THEN "error" ELSE "failed",
                                       IF done.threw THEN 500 ELSE 200) EXCEPT
                                 !.failure = failureOf(reply),
                                 !.response = done.response,
                                 !.intent = r.intent]
            /\ UNCHANGED <<openaiKey, client, successes, stockVars, voiceVars, limiterVars, scanVars>>

\* POST /api/reset: agent.resetConversation()
Reset ==
    /\ conversationHistory' = resetConversation(conversationHistory)
    /\ agentLast' = [AgentDone("resetConversation", "success", 200) EXCEPT
                         !.before = Len(conversationHistory)]
    /\ successes' = 0
    /\ UNCHANGED <<openaiKey, client, reqs, stockVars, voiceVars, limiterVars, scanVars>>

----------------------------------------------------------------------------
(* apiLimiter and the routes it is mounted on                              *)

\* the clients (req.ip) and the paths of the server's routes, as segments
Clients == {"ip1", "ip2"}
Paths ==
    { <<"api", "health">>, <<"api", "chat">>, <<"api", "stock">>, <<"api", "company">>,
      <<"api", "voice", "webhook">>, <<"api", "voice", "query">>, <<"api", "reset">>,
      <<>> }

\* app.use('/api/', apiLimiter): the limiter sees the paths under /api/
underApi(path) == Len(path) >= 1 /\ path[1] = "api"

\* the store's window for a client whose first request comes at time t: either
\* the client's own window of windowMs from that request, or the store's common
\* window, reset every windowMs since start-up
nextResetTime(store, t) ==
    IF store = "client" THEN t + WindowTicks
    ELSE ((t \div WindowTicks) + 1) * WindowTicks

\* the store's increment(key): the hit count of the client's current window
increment(store, hits, resetTime, t) ==
    IF t >= resetTime
    THEN [totalHits |-> 1, resetTime |-> nextResetTime(store, t), fresh |-> TRUE]
    ELSE [totalHits |-> hits + 1, resetTime |-> resetTime, fresh |-> FALSE]

overLimit_OffByOne(totalHits) == totalHits > MaxHits + 1

\* the limiter's test: the request is refused once the hits exceed max
overLimit(totalHits) == totalHits > MaxHits

\* what the server did with a request
Served(ip, path, limited, status, handled) ==
    [ip |-> ip, path |-> path, limited |-> limited, status |-> status, handled |-> handled]
NoRequest == Served("", <<>>, FALSE, 0, FALSE)

\* A request arrives: under /api/ the limiter counts it and either answers 429 or
\* calls next(), which runs the route's handler; elsewhere the handler runs.
HttpRequest ==
    \E ip \in Clients, path \in Paths :
        LET hit == increment(limiter.store, limiter.hits[ip], limiter.resetTime[ip], now)
            refused == underApi(path) /\ overLimit(hit.totalHits)
            window == IF hit.fresh THEN 0 ELSE admits[ip].window
            counted == underApi(path) /\ ~refused
        IN  /\ underApi(path) => hit.totalHits <= MaxHits + MaxOver
            /\ limiter' = IF underApi(path)
                          THEN [limiter EXCEPT !.hits[ip] = hit.totalHits,
                                               !.resetTime[ip] = hit.resetTime]
                          ELSE limiter
            /\ admits' = IF underApi(path)
                         THEN [admits EXCEPT
                                 ![ip].window = window + (IF counted THEN 1 ELSE 0),
                                 ![ip].recent[1] = @ + (IF counted THEN 1 ELSE 0)]
                         ELSE admits
            /\ limLast' = Served(ip, path, underApi(path),
                                 IF refused THEN 429 ELSE 200, ~refused)
            /\ UNCHANGED <<now, agentVars, stockVars, voiceVars, scanVars>>

\* time passes: the oldest tick leaves the recent admissions
Tick ==
    /\ now < MaxTime
    /\ now' = now + 1
    /\ admits' = [ip \in Clients |->
                    [admits[ip] EXCEPT
                       !.recent = <<0>> \o SubSeq(admits[ip].recent, 1, WindowTicks - 1)]]
    /\ limLast' = NoRequest
    /\ UNCHANGED <<limiter, agentVars, stockVars, voiceVars, scanVars>>

----------------------------------------------------------------------------
(* The signal scorer: scanSector(sector, marketCapBand)                    *)

\* the static candidate list of each sector
CANDIDATES ==
    [sector \in {"technology", "healthcare"} |->
        CASE sector = "technology" -> <<"PLTR", "SNOW", "CRWD">>
          [] sector = "healthcare" -> <<"TDOC", "VEEV", "HIMS">>]
Sectors == DOMAIN CANDIDATES
Bands == {"mid", "large"}

\* the factors: revenue growth above GROWTH_THRESHOLD percent, positive momentum,
\* a market capitalization (in billions) within the mid-cap band; their weights,
\* and the least score a returned candidate has
GROWTH_THRESHOLD == 10
MIDCAP_LOW == 2
MIDCAP_HIGH == 10
WEIGHT_GROWTH == 30
WEIGHT_MOMENTUM == 20
WEIGHT_MIDCAP == 25
MIN_SCORE == 30

\* what fetching a candidate's fundamentals gives: a failure, or a snapshot
Fundamentals(failed, revenueGrowth, momentum, marketCap) ==
    [failed |-> failed, revenueGrowth |-> revenueGrowth, momentum |-> momentum,
     marketCap |-> marketCap]
FetchFailed == Fundamentals(TRUE, 0, 0, 0)
Snapshots ==
    {FetchFailed}
      \cup { Fundamentals(FALSE, g, m, c) : g \in {-5, 10, 15}, m \in {-2, 3}, c \in {1, 5} }

\* a factor's contribution: nothing, or its weight and its reason
Contribution(fired, weight, reason) ==
    IF fired THEN [score |-> weight, reasons |-> <<reason>>]
    ELSE [score |-> 0, reasons |-> <<>>]

Scored(ticker, score, reasons, sector) ==
    [ticker |-> ticker, score |-> score, reasons |-> reasons, sector |-> sector]

scoreCandidate_WithPenalty(ticker, sector, f) ==
    LET growth == Contribution(f.revenueGrowth > GROWTH_THRESHOLD, WEIGHT_GROWTH,
                               "Strong revenue growth")
        momentum == Contribution(f.momentum > 0, WEIGHT_MOMENTUM, "Positive momentum")
        midcap == Contribution(f.marketCap >= MIDCAP_LOW /\ f.marketCap <= MIDCAP_HIGH,
                               WEIGHT_MIDCAP, "Mid-cap sweet spot")
        penalty == IF f.revenueGrowth < 0 THEN 10 ELSE 0
    IN  Scored(ticker, growth.score + momentum.score + midcap.score - penalty,
               growth.reasons \o momentum.reasons \o midcap.reasons, sector)

\* the score of one candidate: the sum of the contributions that fired, with
\* their reasons in the order of the factors
scoreCandidate(ticker, sector, f) ==
    LET growth == Contribution(f.revenueGrowth > GROWTH_THRESHOLD, WEIGHT_GROWTH,
                               "Strong revenue growth")
        momentum == Contribution(f.momentum > 0, WEIGHT_MOMENTUM, "Positive momentum")
        midcap == Contribution(f.marketCap >= MIDCAP_LOW /\ f.marketCap <= MIDCAP_HIGH,
                               WEIGHT_MIDCAP, "Mid-cap sweet spot")
    IN  Scored(ticker, growth.score + momentum.score + midcap.score,
               growth.reasons \o momentum.reasons \o midcap.reasons, sector)

\* a candidate below the minimum score is left out
qualifies(entry) == entry.score >= MIN_SCORE

\* the candidates of a list, each fetched and scored in turn: one whose fetch
\* fails is skipped, one that does not qualify is left out
RECURSIVE scoreAll(_, _, _)
scoreAll(list, sector, fetched) ==
    IF list = <<>> THEN <<>>
    ELSE LET f == fetched[Head(list)]
             rest == scoreAll(Tail(list), sector, fetched)
         IN  IF f.failed THEN rest
             ELSE LET entry == scoreCandidate(Head(list), sector, f)
                  IN  IF qualifies(entry) THEN <<entry>> \o rest ELSE rest

\* insertion of an entry into a sequence sorted by descending score, behind the
\* entries of equal score
RECURSIVE insertByScore(_, _)
insertByScore(entry, sorted) ==
    IF sorted = <<>> THEN <<entry>>
    ELSE IF Head(sorted).score >= entry.score
         THEN <<Head(sorted)>> \o insertByScore(entry, Tail(sorted))
         ELSE <<entry>> \o sorted

sortByScore_Unsorted(entries) == entries

\* the stable sort by descending score
RECURSIVE sortByScore(_)
sortByScore(entries) ==
    IF entries = <<>> THEN <<>>
    ELSE insertByScore(entries[Len(entries)],
                       sortByScore(SubSeq(entries, 1, Len(entries) - 1)))

scanCandidates_AbortOnFailure(list, sector, band, fetched) ==
    LET signals == IF \E i \in 1..Len(list) : fetched[list[i]].failed
                   THEN <<>>
                   ELSE sortByScore(scoreAll(list, sector, fetched))
    IN  [sector |-> sector, market_cap |-> band, signals |-> signals,
         summary |-> <<"Found", Len(signals), "promising signals in", sector, "sector">>]

\* the scan of a candidate list
scanCandidates(list, sector, band, fetched) ==
    LET signals == sortByScore(scoreAll(list, sector, fetched))
    IN  [sector |-> sector, market_cap |-> band, signals |-> signals,
         summary |-> <<"Found", Len(signals), "promising signals in", sector, "sector">>]

\* scanSector: the scan of the sector's static list; the band is only echoed
scanSector(sector, marketCapBand, fetched) ==
    scanCandidates(CANDIDATES[sector], sector, marketCapBand, fetched)

ScanInput(sector, band, fetched) == [sector |-> sector, band |-> band, fetched |-> fetched]
Tickers(sector) == {CANDIDATES[sector][i] : i \in 1..Len(CANDIDATES[sector])}
ScanInputs ==
    UNION { { ScanInput(sector, band, fetched) :
                band \in Bands, fetched \in [Tickers(sector) -> Snapshots] } :
            sector \in Sectors }
NoScanInput == ScanInput("", "", <<>>)
NoScan == [done |-> FALSE, sector |-> "", market_cap |-> "", signals |-> <<>>, summary |-> <<>>]

\* POST /api/scan {sector, market_cap}
ScanSector ==
    /\ ~scanLast.done
    /\ scanInput # NoScanInput
    /\ LET result == scanSector(scanInput.sector, scanInput.band, scanInput.fetched)
       IN  scanLast' = [done |-> TRUE, sector |-> result.sector,
                        market_cap |-> result.market_cap, signals |-> result.signals,
                        summary |-> result.summary]
    /\ UNCHANGED <<scanInput, agentVars, stockVars, voiceVars, limiterVars>>

----------------------------------------------------------------------------
(* Specifications                                                          *)

ScanIdle ==
    /\ scanInput = NoScanInput
    /\ scanLast = NoScan

LimiterIdle ==
    /\ now = 0
    /\ limiter = [store |-> "client", hits |-> [ip \in Clients |-> 0],
                  resetTime |-> [ip \in Clients |-> 0]]
    /\ admits = [ip \in Clients |-> [window |-> 0, recent |-> [i \in 1..WindowTicks |-> 0]]]
    /\ limLast = NoRequest

AgentIdle ==
    /\ openaiKey = EnvUnset
    /\ client = "null"
    /\ conversationHistory = <<>>
    /\ reqs = EmptyBag
    /\ agentLast = NoAgentStep
    /\ successes = 0
StockIdle ==
    /\ alphaVantageKey = EnvUnset
    /\ stockLast = NoStockCall
VoiceIdle ==
    /\ apiKey = EnvUnset
    /\ enabled = FALSE
    /\ voiceLast = NoVoiceCall

\* the server after start-up: the agent and the market-data service constructed
\* from the environment (the market-data service with a credential, so that the
\* provider's answers matter; StockSpec covers the other values of the credential)
Init ==
    /\ openaiKey \in EnvValues(OPENAI_PLACEHOLDER)
    /\ client = agentConstructor(openaiKey)
    /\ conversationHistory = <<>>
    /\ reqs = EmptyBag
    /\ agentLast = NoAgentStep
    /\ successes = 0
    /\ alphaVantageKey = Def("live-key")
    /\ stockLast = NoStockCall
    /\ VoiceIdle
    /\ LimiterIdle
    /\ ScanIdle

Next ==
    \/ ChatRequest
    \/ VoiceQueryRequest
    \/ IntentSettles
    \/ ResponseSucceeds
    \/ ResponseFails
    \/ Reset

Spec == Init /\ [][Next]_vars

\* the market-data service on its own
StockInit ==
    /\ alphaVantageKey \in EnvValues(ALPHA_PLACEHOLDER)
    /\ stockLast = NoStockCall
    /\ AgentIdle
    /\ VoiceIdle
    /\ LimiterIdle
    /\ ScanIdle

StockNext ==
    \/ GetStockQuote
    \/ GetCompanyOverview

StockSpec == StockInit /\ [][StockNext]_vars

\* the voice service on its own
VoiceInit ==
    /\ apiKey \in EnvValues(TELNYX_PLACEHOLDER)
    /\ enabled = voiceConstructor(apiKey)
    /\ voiceLast = NoVoiceCall
    /\ AgentIdle
    /\ StockIdle
    /\ LimiterIdle
    /\ ScanIdle

VoiceNext ==
    \/ HandleIncomingCall
    \/ SpeakText
    \/ GatherSpeechInput
    \/ MakeOutboundCall
    \/ Hangup
    \/ ProcessWebhook
    \/ VoiceWebhook

VoiceSpec == VoiceInit /\ [][VoiceNext]_vars

\* the limiter on its own, under either kind of store
LimiterInit ==
    /\ now = 0
    /\ \E store \in {"client", "common"} :
          limiter = [store |-> store, hits |-> [ip \in Clients |-> 0],
                     resetTime |-> [ip \in Clients |-> 0]]
    /\ admits = [ip \in Clients |-> [window |-> 0, recent |-> [i \in 1..WindowTicks |-> 0]]]
    /\ limLast = NoRequest
    /\ AgentIdle
    /\ StockIdle
    /\ VoiceIdle
    /\ ScanIdle

LimiterNext ==
    \/ HttpRequest
    \/ Tick

LimiterSpec == LimiterInit /\ [][LimiterNext]_vars

\* the signal scorer on its own
ScanInit ==
    /\ scanInput \in ScanInputs
    /\ scanLast = NoScan
    /\ AgentIdle
    /\ StockIdle
    /\ VoiceIdle
    /\ LimiterIdle

ScanNext == ScanSector

ScanSpec == ScanInit /\ [][ScanNext]_vars

----------------------------------------------------------------------------
(* Claims about the conversation buffer (Spec)                             *)

Succeeded == agentLast.op = "generateResponse" /\ agentLast.outcome = "success"
WasReset == agentLast.op = "resetConversation"

\* C1: after every completed generateResponse call (successful, failed or degraded)
\* and every resetConversation call, in any sequence and interleaving of them, the
\* conversation buffer holds at most 6 entries.
C1_BufferAtMostSix == Len(conversationHistory) <= 6

\* a successful call that found the buffer full and dropped the oldest pair
C1_Witness ==
    /\ Succeeded
    /\ agentLast.before = 6 /\ agentLast.evicted = 2
    /\ Len(conversationHistory) = 6

\* C2: resetConversation (POST /api/reset) leaves the buffer empty whatever its
\* length was, and is idempotent: a second reset right after a first changes nothing
\* of the agent (the buffer, the client, the calls in flight).
C2_ResetEmptiesAndIsIdempotent ==
    [][/\ agentLast'.op = "resetConversation" => conversationHistory' = <<>>
       /\ (agentLast.op = "resetConversation" /\ agentLast'.op = "resetConversation")
            => /\ conversationHistory' = conversationHistory
               /\ reqs' = reqs /\ client' = client]_vars

\* a reset of a full buffer
C2_Witness == WasReset /\ agentLast.before = 6 /\ conversationHistory = <<>>

\* C3 as stated: counting the successful calls since the buffer was empty, no call
\* up to the 6th evicts anything and the 7th does.
C3_FirstEvictionOnSeventhCall ==
    Succeeded =>
        /\ successes <= 6 => agentLast.evicted = 0
        /\ successes = 7 => agentLast.evicted = 2

\* C3, amended: the buffer holds 6 entries, that is 3 turn pairs; counting the
\* successful calls since the buffer was empty, the first three evict nothing and
\* leave two entries per call, and every call from the 4th on evicts one turn pair
\* and leaves 6 entries.
C3_FirstEvictionOnFourthCall ==
    Succeeded =>
        /\ successes <= 3 =>
              /\ agentLast.evicted = 0
              /\ Len(conversationHistory) = 2 * successes
        /\ successes >= 4 =>
              /\ agentLast.evicted = 2
              /\ Len(conversationHistory) = 6

\* the 4th successful call in a row evicts a pair
C3_Witness == Succeeded /\ successes = 4 /\ agentLast.evicted = 2 /\ agentLast.before = 6

----------------------------------------------------------------------------
(* Claims about the agent pipeline (Spec)                                  *)

IntentSettled == agentLast.op = "generateResponse" /\ agentLast.outcome = "sent"
Degraded == agentLast.op = "generateResponse" /\ agentLast.outcome = "degraded"
SynthesisFailed == agentLast.op = "generateResponse" /\ agentLast.outcome = "failed"

\* C11: identifyIntent never raises, and it returns 'general' when no model
\* credential is configured and whenever the classification call fails: the call is
\* rejected, the reply has no choice, or its message has no content.
C11_IntentDefaultsToGeneral ==
    /\ ~(agentLast.op = "identifyIntent" /\ agentLast.outcome = "error")
    /\ (IntentSettled /\ agentLast.failure # "none") =>
            /\ agentLast.intent = GENERAL
            /\ \E r \in Waiting("gen") : r.intent = GENERAL
    /\ Degraded => agentLast.intent = GENERAL

\* the classification reply carried a message whose content is null
C11_Witness ==
    /\ IntentSettled /\ agentLast.failure = "no content"
    /\ agentLast.intent = GENERAL

NoModelCredential == ~openaiKey.def \/ openaiKey.v = "" \/ openaiKey.v = OPENAI_PLACEHOLDER

\* C12: with no model credential configured at construction (absent, empty or the
\* placeholder), no model call is ever in flight, whatever the requests and however
\* many: every analyzeQuery call ends at once with intent 'general' and the fixed
\* explanatory text.
C12_DegradedModeCallsNoModel ==
    NoModelCredential =>
        /\ reqs = EmptyBag
        /\ agentLast.op \in {"none", "request", "generateResponse", "resetConversation"}
        /\ agentLast.op = "generateResponse" =>
              /\ agentLast.outcome = "degraded" /\ agentLast.status = 200
              /\ agentLast.intent = GENERAL
              /\ agentLast.response = <<DEGRADED_TEXT>>

\* a query answered in degraded mode under the placeholder credential
C12_Witness ==
    /\ openaiKey = Def(OPENAI_PLACEHOLDER)
    /\ Degraded /\ agentLast.response = <<DEGRADED_TEXT>>

\* C13: when the synthesis call fails, generateResponse does not raise but returns
\* the apology followed by the error's text, the buffer is left as it was, and
\* analyzeQuery returns its result (response and intent): the route answers 200.
C13_SynthesisFailureIsAnApology ==
    [][/\ ~(agentLast'.op = "generateResponse" /\ agentLast'.outcome = "error")
       /\ (agentLast'.op = "generateResponse" /\ agentLast'.outcome = "failed") =>
             /\ agentLast'.status = 200
             /\ agentLast'.failure \in {"rejected", "no choice"}
             /\ agentLast'.response =
                   <<APOLOGY, IF agentLast'.failure = "rejected"
                              THEN NETWORK_ERROR ELSE NO_CHOICE_ERROR>>
             /\ agentLast'.intent # <<>>
             /\ conversationHistory' = conversationHistory]_vars

\* a synthesis reply without a choice, answered by the apology
C13_Witness ==
    /\ SynthesisFailed /\ agentLast.failure = "no choice"
    /\ agentLast.response = <<APOLOGY, NO_CHOICE_ERROR>>

WellFormedPairs ==
    /\ Len(conversationHistory) % 2 = 0
    /\ \A i \in 1..Len(conversationHistory) :
          conversationHistory[i].role = IF i % 2 = 1 THEN "user" ELSE "assistant"

\* C20: a successful generateResponse with query q and reply r takes the buffer from
\* H to the last 6 entries of H \o <<(user, q), (assistant, r)>>: order is kept and
\* only the oldest entries go; hence the buffer is a sequence of whole turn pairs,
\* those of the last min(k, 3) successful calls after k calls from an empty buffer.
C20_AppendThenKeepLastSix ==
    [][(agentLast'.op = "generateResponse" /\ agentLast'.outcome = "success") =>
          LET appended == conversationHistory
                            \o <<Turn("user", <<agentLast'.query>>),
                                 Turn("assistant", agentLast'.response)>>
              k == successes'
              kept == IF k < 3 THEN k ELSE 3
          IN  /\ agentLast'.query \in Queries
              /\ conversationHistory' =
                    [i \in 1..(IF Len(appended) < 6 THEN Len(appended) ELSE 6) |->
                        appended[Len(appended) - (IF Len(appended) < 6
                                                  THEN Len(appended) ELSE 6) + i]]
              /\ Len(conversationHistory') = 2 * kept
              /\ WellFormedPairs']_vars

\* the 4th successful call in a row: the first call's pair is gone, the newest is last
C20_Witness ==
    /\ Succeeded /\ successes = 4 /\ Len(conversationHistory) = 6
    /\ conversationHistory[5] = Turn("user", <<agentLast.query>>)
    /\ conversationHistory[6] = Turn("assistant", agentLast.response)
    /\ conversationHistory[1] # conversationHistory[5]

\* the calls of a bag that are in a stage
StageCount(bag, pc) ==
    LET S == {r \in BagToSet(bag) : r.pc = pc}
    IN  IF S = {} THEN 0 ELSE BagCardinality([r \in S |-> bag[r]])
Arrived == agentLast.op = "identifyIntent" /\ agentLast.outcome = "sent"

\* C21: each analyzeQuery call runs its stages in the order classification, context
\* assembly, synthesis, without retry or backtracking: its arrival issues one
\* classification call; when that call settles (returned or failed alike) the same
\* call issues one synthesis call and no further classification call; when the
\* synthesis call settles the call is over; no other step touches a call in flight.
C21_StagesInOrderWithoutRetry ==
    [][/\ Arrived' =>
             \E q \in Queries, d \in {"json", "null"} :
                 reqs' = reqs (+) SetToBag({InFlight("intent", q, d, <<>>)})
       /\ IntentSettled' =>
             /\ \E r \in Waiting("intent") :
                    reqs' = (reqs (-) SetToBag({r}))
                              (+) SetToBag({InFlight("gen", r.query, r.stockData,
                                                     agentLast'.intent)})
             /\ StageCount(reqs', "intent") = StageCount(reqs, "intent") - 1
             /\ StageCount(reqs', "gen") = StageCount(reqs, "gen") + 1
       /\ (Succeeded' \/ SynthesisFailed') =>
             /\ \E r \in Waiting("gen") : reqs' = reqs (-) SetToBag({r})
             /\ StageCount(reqs', "intent") = StageCount(reqs, "intent")
       /\ ~(Arrived' \/ IntentSettled' \/ Succeeded' \/ SynthesisFailed') => reqs' = reqs
      ]_vars

\* a rejected classification call, after which the call is in the synthesis stage
\* while another call is still being classified
C21_Witness ==
    /\ IntentSettled /\ agentLast.failure = "rejected"
    /\ \E r \in Waiting("gen") : r.intent = GENERAL
    /\ Waiting("intent") # {}

\* C24 as stated: the intent that identifyIntent returns, and that analyzeQuery and
\* POST /api/chat report, is one of stock_price, company_analysis, market_trend,
\* education, general, whatever text the model replies with.
C24_IntentIsAFixedLabel ==
    /\ agentLast.op = "generateResponse" => agentLast.intent \in LABELS
    /\ \A r \in Waiting("gen") : r.intent \in LABELS

\* the text the model's reply to a query carries (null when it carries none)
ReplyFor(q) == IF q \in DOMAIN replyTo THEN replyTo[q] ELSE Null

\* C26: in every reachable state, under every interleaving of concurrent requests
\* and resets, the buffer has length 0, 2, 4 or 6 and is made of whole turn pairs:
\* a user entry, then the assistant entry holding the reply produced for it.
C26_WholePairsInEveryState ==
    /\ Len(conversationHistory) \in {0, 2, 4, 6}
    /\ \A i \in 1..Len(conversationHistory) :
          i % 2 = 1 =>
              \E q \in Queries :
                  /\ conversationHistory[i] = Turn("user", <<q>>)
                  /\ conversationHistory[i + 1] = Turn("assistant", <<ReplyFor(q)>>)

\* a full buffer holding pairs of both queries while two calls are in flight
C26_Witness ==
    /\ Len(conversationHistory) = 6 /\ BagCardinality(reqs) = 2
    /\ \E i, j \in {1, 3, 5} :
          /\ conversationHistory[i].content = <<"q1">>
          /\ conversationHistory[j].content = <<"q2">>

\* s is what is left of t after dropping entries from its front
IsSuffix(s, t) ==
    /\ Len(s) <= Len(t)
    /\ \A i \in 1..Len(s) : s[i] = t[Len(t) - Len(s) + i]

\* C27: no turn pair is lost to a concurrent update: right after a successful
\* generateResponse the last two entries of the buffer are that call's query and
\* reply, the entries before them are the newest entries the buffer held in their
\* order, and the other calls in flight stay in flight; so the pairs of concurrent
\* calls lie in the order in which their model calls completed.
C27_CompletionOrder ==
    [][Succeeded' =>
          LET n == Len(conversationHistory')
          IN  /\ n >= 2
              /\ conversationHistory'[n - 1] = Turn("user", <<agentLast'.query>>)
              /\ conversationHistory'[n] = Turn("assistant", agentLast'.response)
              /\ IsSuffix(SubSeq(conversationHistory', 1, n - 2), conversationHistory)
              /\ n < HISTORY_LIMIT =>
                    SubSeq(conversationHistory', 1, n - 2) = conversationHistory
              /\ \E r \in Waiting("gen") :
                    /\ r.query = agentLast'.query
                    /\ reqs' = reqs (-) SetToBag({r})
      ]_vars

\* a call completes while a call with another query is waiting for its synthesis
\* reply; the pair before the new one belongs to a third completion
C27_Witness ==
    /\ Succeeded /\ Len(conversationHistory) >= 4
    /\ \E r \in Waiting("gen") : r.query # agentLast.query
    /\ conversationHistory[Len(conversationHistory) - 1] = Turn("user", <<agentLast.query>>)
    /\ conversationHistory[Len(conversationHistory) - 3] # Turn("user", <<agentLast.query>>)

\* C28: resetConversation does not cancel the queries in flight: a reset leaves
\* them waiting, and when a synthesis reply arrives right after a reset (no query
\* was submitted in between) the buffer goes from empty to that reply's pair.
C28_ResetLeavesCallsInFlight ==
    [][/\ WasReset' => (reqs' = reqs /\ conversationHistory' = <<>>)
       /\ (WasReset /\ Succeeded') =>
             /\ conversationHistory = <<>>
             /\ conversationHistory' = <<Turn("user", <<agentLast'.query>>),
                                         Turn("assistant", agentLast'.response)>>
      ]_vars

\* the step after a reset was the success of a call sent before it
C28_Witness ==
    /\ Succeeded /\ agentLast.afterReset
    /\ Len(conversationHistory) = 2 /\ successes = 1

\* C29: the buffer changes only on a successful synthesis and on a reset: a failed
\* or degraded generateResponse, identifyIntent, gatherContext and
\* buildContextualQuery (the steps in which requests arrive, are refused or are
\* classified) leave it as it is; the user entry a success stores is the raw query,
\* without the serialized stock data that was sent to the model.
C29_BufferFrame ==
    [][/\ conversationHistory' # conversationHistory => (Succeeded' \/ WasReset')
       /\ (SynthesisFailed' \/ Degraded' \/ IntentSettled' \/ Arrived'
             \/ agentLast'.op = "request") =>
             conversationHistory' = conversationHistory
       /\ Succeeded' =>
             LET user == conversationHistory'[Len(conversationHistory') - 1]
             IN  /\ user = Turn("user", <<agentLast'.query>>)
                 /\ agentLast'.stockData # "null" =>
                       user.content # buildContextualQuery(agentLast'.query,
                                                           agentLast'.stockData)
      ]_vars

\* a success of a call that came with a symbol: the model was sent the stock data,
\* the buffer holds the bare query
C29_Witness ==
    /\ Succeeded /\ agentLast.stockData = "json"
    /\ conversationHistory[Len(conversationHistory) - 1].content = <<agentLast.query>>
    /\ buildMessages(<<>>, agentLast.query, agentLast.stockData)[2].content
          # <<agentLast.query>>

----------------------------------------------------------------------------
(* Claims about the market-data service (StockSpec)                        *)

QuoteCalled == stockLast.op = "getStockQuote"
OverviewCalled == stockLast.op = "getCompanyOverview"

\* C4 as stated: getStockQuote and getCompanyOverview never raise, whatever the
\* symbol (a number included) and whatever the live call does.
C4_NeverRaises ==
    /\ QuoteCalled => ~stockLast.quote.threw
    /\ OverviewCalled => ~stockLast.company.threw

\* the live quote call failed: no credential, a network error, or a reply with an
\* expected field missing
QuoteCallFailed ==
    \/ ~Truthy(alphaVantageKey) \/ alphaVantageKey.v = ALPHA_PLACEHOLDER
    \/ stockLast.qreply.throws \/ ~stockLast.qreply.hasData \/ ~stockLast.qreply.hasGQ
    \/ \E f \in DOMAIN stockLast.qreply.gq : ~stockLast.qreply.gq[f].def
OverviewCallFailed ==
    \/ ~Truthy(alphaVantageKey) \/ alphaVantageKey.v = ALPHA_PLACEHOLDER
    \/ stockLast.oreply.throws \/ ~stockLast.oreply.hasData
    \/ \E f \in DOMAIN stockLast.oreply.ov : ~stockLast.oreply.ov[f].def

\* C5 as stated: whenever the live call failed, the record returned for a ticker
\* string is the fallback one (the table entry or the placeholder), never one with
\* undefined fields built from the reply.
C5_FailureServesFallback ==
    stockLast.symbol.t = "string" =>
        /\ (QuoteCalled /\ QuoteCallFailed) =>
              /\ stockLast.quote.value = getMockStockData(stockLast.symbol).value
              /\ \A f \in DOMAIN stockLast.quote.value : stockLast.quote.value[f].def
        /\ (OverviewCalled /\ OverviewCallFailed) =>
              /\ stockLast.company.value = getMockCompanyData(stockLast.symbol).value
              /\ \A f \in DOMAIN stockLast.company.value : stockLast.company.value[f].def

LetterPairs ==
    {<<"a", "A">>, <<"p", "P">>, <<"l", "L">>, <<"m", "M">>, <<"s", "S">>,
     <<"f", "F">>, <<"t", "T">>, <<"z", "Z">>}
\* u is s with every lower-case letter replaced by its capital
IsUpperCased(u, s) ==
    /\ Len(u) = Len(s)
    /\ \A i \in 1..Len(s) :
          /\ u[i] = s[i] \/ <<s[i], u[i]>> \in LetterPairs
          /\ \A p \in LetterPairs : u[i] # p[1]
\* the table ticker that s spells in some letter case, if any
SpelledTickers(s) == {k \in {AAPL, GOOGL, MSFT} : IsUpperCased(k, s)}

\* C6: when the fallback serves a ticker string (no credential here), a string that
\* spells no table ticker in any letter case gets the placeholder quote: its symbol
\* is the upper-cased input and price, change and volume are the fixed texts, all
\* defined; a string that spells a table ticker in any letter case gets the table's
\* entry.  The same holds of the fallback company record.
C6_FallbackIsCaseInsensitive ==
    (~keyConfigured(alphaVantageKey) /\ stockLast.symbol.t = "string") =>
        /\ QuoteCalled =>
              LET q == stockLast.quote.value
              IN  /\ ~stockLast.quote.threw
                  /\ \A f \in DOMAIN q : q[f].def
                  /\ IsUpperCased(q.symbol.v, stockLast.symbol.s)
                  /\ SpelledTickers(stockLast.symbol.s) = {} =>
                        /\ q.price.v = "100.00" /\ q.change.v = "+0.00"
                        /\ q.volume.v = "1000000"
                  /\ \A k \in SpelledTickers(stockLast.symbol.s) : q = mockStockData[k]
        /\ OverviewCalled =>
              LET c == stockLast.company.value
              IN  /\ ~stockLast.company.threw
                  /\ IsUpperCased(c.symbol.v, stockLast.symbol.s)
                  /\ SpelledTickers(stockLast.symbol.s) = {} => c.sector.v = "Unknown"
                  /\ \A k \in SpelledTickers(stockLast.symbol.s) : c = mockCompanyData[k]

\* a mixed-case ticker outside the table, served by the fallback
C6_Witness ==
    /\ QuoteCalled /\ ~Truthy(alphaVantageKey)
    /\ stockLast.symbol = StrVal(<<"a", "Z">>)
    /\ stockLast.quote.value.symbol = Def(<<"A", "Z">>)
    /\ stockLast.quote.value.price = Def("100.00")

\* C22: each getStockQuote and each getCompanyOverview call issues at most one
\* provider request: exactly one when a credential is configured, a failure of
\* that request included (the fallback is served without a second request), and
\* none when the credential is absent, empty or the placeholder.
C22_AtMostOneProviderRequest ==
    /\ stockLast.quote.requests <= 1 /\ stockLast.company.requests <= 1
    /\ ~keyConfigured(alphaVantageKey) =>
          (stockLast.quote.requests = 0 /\ stockLast.company.requests = 0)
    /\ (QuoteCalled /\ keyConfigured(alphaVantageKey)) => stockLast.quote.requests = 1
    /\ (OverviewCalled /\ keyConfigured(alphaVantageKey)) => stockLast.company.requests = 1

\* the one quote request was rejected and the fallback record was served
C22_Witness ==
    /\ QuoteCalled /\ keyConfigured(alphaVantageKey)
    /\ stockLast.qreply.throws
    /\ stockLast.quote.requests = 1 /\ ~stockLast.quote.threw

----------------------------------------------------------------------------
(* Claims about the voice service (VoiceSpec)                              *)

Commands == {"handleIncomingCall", "speakText", "gatherSpeechInput", "makeOutboundCall", "hangup"}
SingleCommands == {"speakText", "gatherSpeechInput", "makeOutboundCall", "hangup"}
\* no telephony credential: absent, empty or the placeholder
Unconfigured == ~apiKey.def \/ apiKey.v = "" \/ apiKey.v = TELNYX_PLACEHOLDER
Result == voiceLast.done.result
Sent == voiceLast.done.commands
RefusedAsNotConfigured ==
    /\ ~voiceLast.done.threw
    /\ Result.keys = {"success", "message"} /\ ~Result.success
    /\ Result.message = Def("Voice service not configured")

\* C7 as stated: without a credential every public operation, processWebhook
\* included, returns {success: false, message: not configured} and sends nothing.
C7_EveryOperationRefuses ==
    (Unconfigured /\ voiceLast.op # "none") => (RefusedAsNotConfigured /\ Sent = <<>>)

\* C7, amended: without a credential handleIncomingCall, speakText,
\* gatherSpeechInput, makeOutboundCall and hangup return {success: false, message:
\* 'Voice service not configured'}; processWebhook does not look at the credential
\* and never returns that record (what it returns has no success field); none of
\* the six sends a command to the provider.
C7_CommandsRefuseWebhookExtracts ==
    (Unconfigured /\ voiceLast.op # "none") =>
        /\ Sent = <<>>
        /\ voiceLast.op \in Commands => RefusedAsNotConfigured
        /\ voiceLast.op = "processWebhook" => "success" \notin Result.keys

\* the placeholder credential, and an outbound call refused
C7_Witness ==
    /\ apiKey = Def(TELNYX_PLACEHOLDER)
    /\ voiceLast.op = "makeOutboundCall"
    /\ RefusedAsNotConfigured /\ Sent = <<>>

\* C8 as stated: speakText, gatherSpeechInput, makeOutboundCall and hangup return
\* both success and message on every path.
C8_UniformShape ==
    voiceLast.op \in SingleCommands => {"success", "message"} \subseteq Result.keys

\* C8, amended: every result of the four operations has success; message is there
\* exactly when success is false (not configured, or the provider call failed); a
\* successful result has no message: it is {success: true}, with data added by
\* gatherSpeechInput and callControlId and note added by makeOutboundCall.
C8_MessageOnlyOnFailure ==
    voiceLast.op \in SingleCommands =>
        /\ "success" \in Result.keys
        /\ "message" \in Result.keys <=> ~Result.success
        /\ Result.success =>
              Result.keys = CASE voiceLast.op = "gatherSpeechInput" -> {"success", "data"}
                              [] voiceLast.op = "makeOutboundCall" ->
                                     {"success", "callControlId", "note"}
                              [] OTHER -> {"success"}

\* a successful speakText: {success: true}
C8_Witness ==
    /\ voiceLast.op = "speakText" /\ enabled
    /\ Result.success /\ Result.keys = {"success"}

\* the provider's answer to the i-th command sent was a failure: the call rejected,
\* or the answer to create had no data
ReplyFailed(i) ==
    \/ voiceLast.replies[i].throws
    \/ Sent[i].cmd = "create" /\ ~voiceLast.replies[i].hasData
NoCommandTwice == \A i, j \in 1..Len(Sent) : Sent[i] = Sent[j] => i = j

\* C9 as stated: the five operations never raise, every failed provider call of an
\* invocation makes it return success = false, and no command is sent twice.
C9_EveryFailureReported ==
    voiceLast.op \in Commands =>
        /\ ~voiceLast.done.threw
        /\ (\E i \in 1..Len(Sent) : ReplyFailed(i)) => ("success" \in Result.keys /\ ~Result.success)
        /\ NoCommandTwice

\* C9, amended: the five operations never raise; a failure of the operation's own
\* command (answer, speak, gather, create, hangup; a create answer without data
\* included) makes it return success = false; handleIncomingCall returns success =
\* true once its answer command succeeded, also when the greeting's speak command
\* failed; each operation sends each of its commands at most once (the four single
\* operations one command, handleIncomingCall answer and then speak).
C9_OwnFailureReported ==
    voiceLast.op \in Commands =>
        /\ ~voiceLast.done.threw
        /\ "success" \in Result.keys
        /\ (Len(Sent) >= 1 /\ ReplyFailed(1)) => ~Result.success
        /\ voiceLast.op \in SingleCommands => Len(Sent) <= 1
        /\ voiceLast.op = "handleIncomingCall" =>
              /\ Len(Sent) <= 2
              /\ (Len(Sent) >= 1 /\ ~ReplyFailed(1)) => (Result.success /\ Len(Sent) = 2)
        /\ NoCommandTwice

\* the greeting failed after the answer succeeded, and success is true
C9_Witness ==
    /\ voiceLast.op = "handleIncomingCall"
    /\ Len(Sent) = 2 /\ Sent[1].cmd = "answer" /\ Sent[2].cmd = "speak"
    /\ ~ReplyFailed(1) /\ ReplyFailed(2)
    /\ Result.success

\* the expected structure of a webhook body is absent
StructureAbsent ==
    \/ voiceLast.event.t # "object"
    \/ voiceLast.event.data.t # "object"

\* C10 as stated: processWebhook never raises, whatever the payload (no event
\* object at all included); without the expected structure the three fields it
\* returns are undefined; it sends nothing.
C10_WebhookNeverRaises ==
    voiceLast.op = "processWebhook" =>
        /\ ~voiceLast.hook.threw
        /\ Sent = <<>>
        /\ StructureAbsent =>
              /\ ~voiceLast.hook.eventType.def
              /\ ~voiceLast.hook.callControlId.def
              /\ voiceLast.hook.payload.t = "undefined"

\* C15: POST /api/voice/webhook answers {received: true} for every event body (the
\* handled event types, unknown types, bodies without a type or without data),
\* with the voice service enabled or not and whatever the provider answers to the
\* commands; commands go out only for call.answered (and only when enabled).
C15_WebhookAlwaysReceived ==
    voiceLast.op = "POST /api/voice/webhook" =>
        /\ voiceLast.status = 200
        /\ Result.keys = {"received"}
        /\ Sent # <<>> => (voiceLast.hook.eventType = Def("call.answered") /\ enabled)
        /\ \A i \in 1..Len(Sent) : Sent[i].cmd \in {"answer", "speak"}

\* a call.answered event whose answer command the provider refused
C15_Witness ==
    /\ voiceLast.op = "POST /api/voice/webhook" /\ enabled
    /\ voiceLast.hook.eventType = Def("call.answered")
    /\ Len(Sent) = 1 /\ voiceLast.replies[1].throws
    /\ Result.keys = {"received"}

\* handleIncomingCall ran with the service enabled, called directly or by the
\* webhook route for a call.answered event
IncomingCallHandled ==
    /\ enabled
    /\ \/ voiceLast.op = "handleIncomingCall"
       \/ /\ voiceLast.op = "POST /api/voice/webhook"
          /\ voiceLast.hook.eventType = Def("call.answered")

\* C23: in handleIncomingCall (service enabled) the answer command goes out first;
\* the greeting's speak command goes out second, on the same call, exactly when
\* the answer command succeeded; nothing follows it, so a failed greeting is
\* followed by no hangup or other retracting command, and a failed answer by no
\* greeting.
C23_AnswerBeforeGreeting ==
    IncomingCallHandled =>
        /\ Len(Sent) \in {1, 2}
        /\ Sent[1].cmd = "answer"
        /\ Len(Sent) = 2 <=> ~voiceLast.replies[1].throws
        /\ Len(Sent) = 2 => Sent[2] = SpeakCommand(Sent[1].id, GREETING)

\* the webhook route handled call.answered; the answer went through, the greeting
\* was refused, and nothing was sent after it
C23_Witness ==
    /\ IncomingCallHandled /\ voiceLast.op = "POST /api/voice/webhook"
    /\ Len(Sent) = 2 /\ Sent[1].cmd = "answer" /\ Sent[2].cmd = "speak"
    /\ ~voiceLast.replies[1].throws /\ voiceLast.replies[2].throws

\* C25 as stated: after makeOutboundCall(toNumber, message) has succeeded, handling
\* the call.answered webhook event of the call it created speaks the given message
\* on that call.
C25_MessageSpokenWhenAnswered ==
    [][(/\ voiceLast.op = "makeOutboundCall" /\ voiceLast.created.def
        /\ voiceLast'.op = "POST /api/voice/webhook"
        /\ voiceLast'.hook.eventType = Def("call.answered")
        /\ voiceLast'.hook.callControlId = voiceLast.created
        /\ voiceLast'.status = 200
        /\ \A i \in 1..Len(voiceLast'.replies) : ~voiceLast'.replies[i].throws)
          => \E i \in 1..Len(voiceLast'.done.commands) :
                 voiceLast'.done.commands[i]
                    = SpeakCommand(voiceLast.created, voiceLast.message)
      ]_vars

\* C30: the success flag of handleIncomingCall reflects the answer command only:
\* with the service enabled it is true exactly when the answer command succeeded,
\* whatever became of the greeting.
C30_SuccessReflectsAnswerOnly ==
    (voiceLast.op = "handleIncomingCall" /\ enabled) =>
        /\ ~voiceLast.done.threw
        /\ "success" \in Result.keys
        /\ Result.success <=> ~voiceLast.replies[1].throws

\* the greeting was refused and the call is reported as answered
C30_Witness ==
    /\ voiceLast.op = "handleIncomingCall" /\ enabled
    /\ ~voiceLast.replies[1].throws /\ voiceLast.replies[2].throws
    /\ Result.success /\ Result.message = Def("Call answered successfully")

----------------------------------------------------------------------------
(* Claims about the request limiter (LimiterSpec)                          *)

RECURSIVE SumSeq(_)
SumSeq(s) == IF s = <<>> THEN 0 ELSE Head(s) + SumSeq(Tail(s))

\* the routes under /api/
ApiPaths == Paths \ {<<>>}
\* requests of a client let through within the last WindowTicks ticks
RecentlyAdmitted(ip) == SumSeq(admits[ip].recent)
Refused == limLast.status = 429

\* what the limiter does with one request: it is consulted exactly on the routes
\* under /api/, and a request it refuses runs no handler and changes nothing of the
\* agent, the market-data service or the voice service
LimiterStep ==
    /\ limLast'.ip \in Clients =>
          /\ limLast'.limited <=> limLast'.path \in ApiPaths
          /\ limLast'.handled <=> limLast'.status = 200
    /\ limLast'.status = 429 =>
          /\ limLast'.limited /\ ~limLast'.handled
          /\ agentVars' = agentVars /\ stockVars' = stockVars /\ voiceVars' = voiceVars

----------------------------------------------------------------------------
(* Claims about the signal scorer (ScanSpec)                               *)

Signals == scanLast.signals
Fetched(ticker) == scanInput.fetched[ticker]
FetchOk(ticker) == ~Fetched(ticker).failed
\* the factors that fire for a candidate, by their reasons
Fired(ticker) ==
    (IF Fetched(ticker).revenueGrowth > 10 THEN {"Strong revenue growth"} ELSE {})
      \cup (IF Fetched(ticker).momentum > 0 THEN {"Positive momentum"} ELSE {})
      \cup (IF Fetched(ticker).marketCap \in 2..10 THEN {"Mid-cap sweet spot"} ELSE {})
WeightOf(reason) ==
    CASE reason = "Strong revenue growth" -> WEIGHT_GROWTH
      [] reason = "Positive momentum" -> WEIGHT_MOMENTUM
      [] reason = "Mid-cap sweet spot" -> WEIGHT_MIDCAP
RECURSIVE SumWeights(_)
SumWeights(reasons) ==
    IF reasons = {} THEN 0
    ELSE LET r == CHOOSE x \in reasons : TRUE
         IN  WeightOf(r) + SumWeights(reasons \ {r})
Returned == {Signals[i].ticker : i \in 1..Len(Signals)}

\* C17: scanSector returns no candidate whose score is below the minimum (such a
\* candidate is left out, whatever its rank would be), and what it returns is sorted
\* by non-increasing score, for every sector and all fundamentals.
C17_AboveMinimumAndSorted ==
    scanLast.done =>
        /\ \A i \in 1..Len(Signals) : Signals[i].score >= MIN_SCORE
        /\ \A i, j \in 1..Len(Signals) : i < j => Signals[i].score >= Signals[j].score
        /\ \A ticker \in Tickers(scanInput.sector) :
              (FetchOk(ticker) /\ SumWeights(Fired(ticker)) < MIN_SCORE)
                  => ticker \notin Returned

\* the last candidate of the list comes first, and one with a lower score is left out
C17_Witness ==
    /\ scanLast.done /\ scanInput.sector = "technology"
    /\ Len(Signals) = 2
    /\ Signals[1].ticker = "CRWD" /\ Signals[2].ticker = "PLTR"
    /\ Signals[1].score > Signals[2].score
    /\ FetchOk("SNOW") /\ SumWeights(Fired("SNOW")) = WEIGHT_MIDCAP

C19_FailedFetchIsSkipped ==
    scanLast.done =>
        LET others == SelectSeq(CANDIDATES[scanInput.sector], FetchOk)
        IN  /\ \A ticker \in Returned : FetchOk(ticker)
            /\ Signals = scanCandidates(others, scanInput.sector, scanInput.band,
                                        scanInput.fetched).signals
            /\ \A ticker \in Tickers(scanInput.sector) :
                  (FetchOk(ticker) /\ SumWeights(Fired(ticker)) >= MIN_SCORE)
                      => ticker \in Returned

\* the first candidate's fetch failed and the two others are returned
C19_Witness ==
    /\ scanLast.done /\ scanInput.sector = "technology"
    /\ ~FetchOk("PLTR")
    /\ Returned = {"SNOW", "CRWD"}

====
